---- MODULE Spec2Model ----
(***************************************************************************)
(* Model of src/script.js (lines 1-563): the Storage wrapper, the Modal    *)
(* dialog component and the "change background colour" demo feature.       *)
(*                                                                         *)
(* Text is a sequence of one-character strings.  A JavaScript value is a   *)
(* record [t, v]: t = "str" with v the characters, t = "num" with v the    *)
(* canonical decimal digits, t = "null", or t = "undef".                   *)
(***************************************************************************)
EXTENDS Integers, Sequences, FiniteSets, TLC

\* ---------------------------------------------------------------- bounds
\* longest text the store may hold when the page is first opened
MaxLen == 4
\* the values of Math.floor(Math.random() * 255) that are sampled are the
\* multiples of 15 (hex 0f) up to MaxSample * 15: 00, 0f, 1e, ...
MaxSample == 2
\* most delayed callbacks pending at once
MaxTimers == 2
\* last reading of the clock seen by a throttled function
MaxTime == 6
\* largest limit a throttled function is created with
MaxLimit == 3

\* ------------------------------------------------------------- constants
\* Math.random() * 255 floors to 0 .. GrayRange - 1
GrayRange == 255
\* width the hex pair is padded to
HexWidth == 2

\* characters the initially stored text is drawn from
Chars == {"\"", "\\", "#", "1"}

Digits == {"0", "1", "2", "3", "4", "5", "6", "7", "8", "9"}

HexChars == <<"0", "1", "2", "3", "4", "5", "6", "7", "8", "9",
              "a", "b", "c", "d", "e", "f">>

\* ----------------------------------------------------------- JS values
Str(s) == [t |-> "str", v |-> s]
Num(d) == [t |-> "num", v |-> d]
Null == [t |-> "null", v |-> <<>>]
Undefined == [t |-> "undef", v |-> <<>>]

\* JavaScript truthiness: "" , 0, null and undefined are falsy
Truthy(x) ==
  CASE x.t = "str" -> x.v # <<>>
    [] x.t = "num" -> x.v # <<"0">>
    [] OTHER -> FALSE

\* CONFIG.defaults.mainColor
DefaultColor == Str(<<"#", "1", "1", "1">>)

\* ------------------------------------------------------------------ JSON
RECURSIVE EscapeChars(_)
\* the body of a JSON string literal: a quote and a backslash get a
\* backslash in front
EscapeChars(s) ==
  IF s = <<>> THEN <<>>
  ELSE IF Head(s) \in {"\"", "\\"}
       THEN <<"\\", Head(s)>> \o EscapeChars(Tail(s))
       ELSE <<Head(s)>> \o EscapeChars(Tail(s))

\* JSON.stringify of a string or a number
JSONstringify(x) ==
  IF x.t = "str" THEN <<"\"">> \o EscapeChars(x.v) \o <<"\"">>
  ELSE x.v

RECURSIVE UnescapeChars(_)
\* the characters of a string literal's body, or <<"!">> in front when the
\* body is malformed (a bare quote, a dangling or unknown escape)
UnescapeChars(s) ==
  IF s = <<>> THEN <<>>
  ELSE IF Head(s) = "\""
       THEN <<"!">>
  ELSE IF Head(s) = "\\"
       THEN IF Len(s) >= 2 /\ s[2] \in {"\"", "\\", "/"}
            THEN LET rest == UnescapeChars(Tail(Tail(s)))
                 IN IF rest # <<>> /\ Head(rest) = "!" THEN <<"!">>
                    ELSE <<s[2]>> \o rest
            ELSE <<"!">>
  ELSE LET rest == UnescapeChars(Tail(s))
       IN IF rest # <<>> /\ Head(rest) = "!" THEN <<"!">>
          ELSE <<Head(s)>> \o rest

IsNumberText(s) ==
  /\ s # <<>>
  /\ \A i \in 1..Len(s) : s[i] \in Digits
  /\ (Len(s) > 1 => s[1] # "0")

\* JSON.parse: [ok |-> TRUE, val] or, when it throws SyntaxError,
\* [ok |-> FALSE].  String literals and unsigned integers are the JSON
\* documents that can be written with the characters of the model.
JSONparse(s) ==
  IF Len(s) >= 2 /\ s[1] = "\"" /\ s[Len(s)] = "\""
  THEN LET body == UnescapeChars(SubSeq(s, 2, Len(s) - 1))
       IN IF body # <<>> /\ Head(body) = "!"
          THEN [ok |-> FALSE, val |-> Undefined]
          ELSE [ok |-> TRUE, val |-> Str(body)]
  ELSE IF IsNumberText(s)
       THEN [ok |-> TRUE, val |-> Num(s)]
       ELSE [ok |-> FALSE, val |-> Undefined]

\* ------------------------------------------------------- pure functions
RECURSIVE ToString16(_)
\* Number.prototype.toString(16)
ToString16(n) ==
  IF n < 16 THEN <<HexChars[n + 1]>>
  ELSE ToString16(n \div 16) \o <<HexChars[(n % 16) + 1]>>

RECURSIVE PadStart(_, _, _)
\* String.prototype.padStart
PadStart(s, width, ch) ==
  IF Len(s) >= width THEN s ELSE PadStart(<<ch>> \o s, width, ch)

\* mutant of GetRandomGray: the hex pair is not padded
GetRandomGray_noPad(intensity) ==
  LET hex == ToString16(intensity)
  IN Str(<<"#">> \o hex \o hex \o hex)

\* Pure.getRandomGray, for the value `intensity` that Math.floor returned
GetRandomGray(intensity) ==
  LET hex == PadStart(ToString16(intensity), HexWidth, "0")
  IN Str(<<"#">> \o hex \o hex \o hex)

\* ----------------------------------------------------------------- state
VARIABLES
  hasModal,       \* the page has the overlay root (.modal) with its slot and close control
  hasAlertTpl,    \* the page has the template modal-alert
  hasConfirmTpl,  \* the page has the template modal-confirm
  phase,          \* "unloaded", "running", or "crashed" (the script threw while loading)
  logInit,        \* Log.init has defined Log.red, Log.gray, ...
  store,          \* localStorage under the colour key: [has, text]
  mainColor,      \* STATE.mainColor
  bg,             \* the value last assigned to the main region's style.backgroundColor
  active,         \* the overlay carries the class modal--active
  overflow,       \* document.body.style.overflow
  content,        \* what the content slot holds, with the listeners on its buttons
  timers,         \* delayed acknowledgment callbacks not yet fired
  lastCall,       \* the most recent of Modal.open / Modal.close to be called since load
  lastSet,        \* outcome and argument of the most recent Storage.set
  ev              \* the last step: operation, click target, calls to Modal.close,
                  \* outcome of Storage.get, where an uncaught exception came from,
                  \* the continuations invoked and whether one of them started
                  \* with the modal open or the scroll locked

vars == <<hasModal, hasAlertTpl, hasConfirmTpl, phase, logInit, store, mainColor, bg,
          active, overflow, content, timers, lastCall, lastSet, ev>>

\* A function returned by Tools.throttle(func, limit), used on its own
VARIABLES
  now,            \* Date.now(): positive, never decreases
  limit,          \* the limit the throttled function was created with
  lastRan,        \* the closure's lastRan: [set, at], not set while undefined
  lastFunc,       \* the closure's lastFunc: "undefined", "pending" (the handle of the
                  \* timer scheduled last, still waiting) or "fired"
  scheduled,      \* due times of the waiting timers, in the order they were set
  lastInvoked,    \* when func was last applied: [set, at]
  tev             \* the last step: operation, whether it applied func, whether the
                  \* throttled function has been called so far

tvars == <<now, limit, lastRan, lastFunc, scheduled, lastInvoked, tev>>

Never == [set |-> FALSE, at |-> 0]
At(time) == [set |-> TRUE, at |-> time]

\* the closure just after Tools.throttle(func, l) returned
ThrottleCreated(l) ==
  /\ now = 1
  /\ limit = l
  /\ lastRan = Never
  /\ lastFunc = "undefined"
  /\ scheduled = <<>>
  /\ lastInvoked = Never
  /\ tev = [op |-> "none", invoked |-> FALSE, called |-> FALSE]

\* the state as one record, which the operations below transform; logNoop
\* is set only to run an operation with a logger whose calls do nothing
Cur ==
  [logNoop |-> FALSE, hasModal |-> hasModal, hasAlertTpl |-> hasAlertTpl, hasConfirmTpl |-> hasConfirmTpl,
   phase |-> phase, logInit |-> logInit, store |-> store, mainColor |-> mainColor,
   bg |-> bg, active |-> active, overflow |-> overflow, content |-> content,
   timers |-> timers, lastCall |-> lastCall, lastSet |-> lastSet, ev |-> ev]

Commit(s) ==
  /\ hasModal' = s.hasModal
  /\ hasAlertTpl' = s.hasAlertTpl
  /\ hasConfirmTpl' = s.hasConfirmTpl
  /\ phase' = s.phase
  /\ logInit' = s.logInit
  /\ store' = s.store
  /\ mainColor' = s.mainColor
  /\ bg' = s.bg
  /\ active' = s.active
  /\ overflow' = s.overflow
  /\ content' = s.content
  /\ timers' = s.timers
  /\ lastCall' = s.lastCall
  /\ lastSet' = s.lastSet
  /\ ev' = s.ev
  /\ UNCHANGED tvars

NoEvent ==
  [op |-> "none", target |-> "none", closes |-> 0, get |-> "none", uncaught |-> "none",
   conts |-> <<>>, contOpen |-> FALSE]

\* the state in which a handler named op starts running
Begin(op, target) ==
  [Cur EXCEPT !.ev = [NoEvent EXCEPT !.op = op, !.target = target]]

Threw(s) == s.ev.uncaught # "none"

Throw(s, site) == [s EXCEPT !.ev.uncaught = site]

EmptyContent ==
  [kind |-> "empty", title |-> "", button |-> <<>>, cancel |-> <<>>, confirm |-> <<>>]

\* a fresh clone of a template, its title slot filled in; no listeners yet
Fragment(kind, title) == [EmptyContent EXCEPT !.kind = kind, !.title = title]

\* all texts of at most n characters
TextsUpTo(n) == UNION {[1..k -> Chars] : k \in 0..n}

NoItem == [has |-> FALSE, text |-> <<>>]

Item(text) == [has |-> TRUE, text |-> text]

\* ---------------------------------------------------------------- Logger
\* a call of Log.red / Log.gray / ...: these methods exist once Log.init has run
LogStyled(s) ==
  IF s.logInit \/ s.logNoop THEN s ELSE Throw(s, "Log")

\* the program with its logger replaced by one whose every call does nothing
NoopLogger(s) == [s EXCEPT !.logNoop = TRUE]

LogInit(s) == [s EXCEPT !.logInit = TRUE]

\* --------------------------------------------------------------- Storage
\* Storage.get(CONFIG.storage.mainColor): [st, val]; readOk is whether
\* localStorage.getItem returns rather than throws
StorageGet(s, readOk, defaultValue) ==
  LET parsed == JSONparse(s.store.text)
      caught(why) == [st |-> LogStyled([s EXCEPT !.ev.get = why]), val |-> defaultValue]
  IN IF ~readOk THEN caught("readError")
     ELSE IF s.store.has /\ s.store.text # <<>>
          THEN IF parsed.ok
               THEN [st |-> [s EXCEPT !.ev.get = "parsed"], val |-> parsed.val]
               ELSE caught("parseError")
          ELSE [st |-> [s EXCEPT !.ev.get = "absent"], val |-> defaultValue]

\* mutant of StorageSet: the value is stored as it is, not JSON-encoded
StorageSet_raw(s, value, writeOk) ==
  IF writeOk
  THEN [s EXCEPT !.store = Item(value.v),
                 !.lastSet = [res |-> "ok", val |-> value]]
  ELSE LogStyled([s EXCEPT !.lastSet = [res |-> "failed", val |-> value]])

\* Storage.set(CONFIG.storage.mainColor, value); writeOk is whether
\* localStorage.setItem returns rather than throws
StorageSet(s, value, writeOk) ==
  IF writeOk
  THEN [s EXCEPT !.store = Item(JSONstringify(value)),
                 !.lastSet = [res |-> "ok", val |-> value]]
  ELSE LogStyled([s EXCEPT !.lastSet = [res |-> "failed", val |-> value]])

\* ------------------------------------------------------------------- DOM
\* the helpers below are the DOM calls Modal makes, on the elements it makes
\* them on; each tolerates a missing element (`element &&`, `element?.`)

\* DOM.clear(Modal.$.content)
DOMclear(s) ==
  IF s.hasModal THEN [s EXCEPT !.content = EmptyContent] ELSE s

\* DOM.setHTML(Modal.$.content, html): markup, no listeners
DOMsetHTML(s, node) ==
  IF s.hasModal THEN [s EXCEPT !.content = Fragment("html", node.title)] ELSE s

\* DOM.append(Modal.$.content, node): the slot is empty when Modal.open calls it
DOMappend(s, node) ==
  IF s.hasModal THEN [s EXCEPT !.content = node] ELSE s

\* DOM.addClass(Modal.$.element, 'modal--active')
DOMaddClass(s) ==
  IF s.hasModal THEN [s EXCEPT !.active = TRUE] ELSE s

\* mutant of DOMremoveClass: toggleClass in place of removeClass
DOMremoveClass_toggles(s) ==
  IF s.hasModal THEN [s EXCEPT !.active = ~@] ELSE s

\* DOM.removeClass(Modal.$.element, 'modal--active')
DOMremoveClass(s) ==
  IF s.hasModal THEN [s EXCEPT !.active = FALSE] ELSE s

\* DOM.hasClass(Modal.$.element, 'modal--active')
DOMhasClass(s) == IF s.hasModal THEN s.active ELSE FALSE

DOMlockScroll(s) == [s EXCEPT !.overflow = "hidden"]

\* mutant of DOMunlockScroll: the lock is flipped, not released
DOMunlockScroll_flips(s) ==
  [s EXCEPT !.overflow = IF @ = "hidden" THEN "" ELSE "hidden"]

DOMunlockScroll(s) == [s EXCEPT !.overflow = ""]

\* DOM.getTemplate(id) for id "alert" / "confirm": a fresh clone, or "null"
DOMgetTemplate(s, id) ==
  IF (id = "alert" /\ s.hasAlertTpl) \/ (id = "confirm" /\ s.hasConfirmTpl)
  THEN Fragment(id, "")
  ELSE [EmptyContent EXCEPT !.kind = "null"]

\* DOM.setStyle($.main.element, 'backgroundColor', value)
DOMsetStyle(s, value) == [s EXCEPT !.bg = value]

\* ----------------------------------------------------------------- Modal
\* Modal.isOpen(): `Modal.$.element && ...` is null, hence falsy, without the root
ModalIsOpen(s) == s.hasModal /\ DOMhasClass(s)

\* mutant of ModalClose: DOM.unlockScroll() is left out
ModalClose_keepsLock(s) ==
  LET c == [s EXCEPT !.ev.closes = @ + 1, !.lastCall = "close"]
  IN IF ~c.hasModal THEN c
     ELSE LogStyled(DOMremoveClass(c))

ModalClose(s) ==
  LET c == [s EXCEPT !.ev.closes = @ + 1, !.lastCall = "close"]
  IN IF ~c.hasModal THEN c
     ELSE LogStyled(DOMunlockScroll(DOMremoveClass(c)))

\* mutant of ModalOpen: the slot is not cleared and the dialog nodes already
\* in it, with their listeners, are filled in again
ModalOpen_reusesNodes(s, arg) ==
  LET c == [s EXCEPT !.lastCall = "open"]
      reused == [arg.node EXCEPT !.button = c.content.button,
                                 !.cancel = c.content.cancel,
                                 !.confirm = c.content.confirm]
      filled == CASE arg.type = "string" -> DOMsetHTML(c, arg.node)
                  [] arg.type = "node" -> DOMappend(c, reused)
                  [] OTHER -> c
  IN IF ~c.hasModal THEN LogStyled(c)
     ELSE LogStyled(DOMlockScroll(DOMaddClass(filled)))

\* mutant of ModalOpen: a modal that is already open is left as it is
ModalOpen_keepsOpenDialog(s, arg) ==
  LET c == [s EXCEPT !.lastCall = "open"]
      cleared == DOMclear(c)
      filled == CASE arg.type = "string" -> DOMsetHTML(cleared, arg.node)
                  [] arg.type = "node" -> DOMappend(cleared, arg.node)
                  [] OTHER -> cleared
  IN IF ~c.hasModal THEN LogStyled(c)
     ELSE IF ModalIsOpen(c) THEN LogStyled(c)
     ELSE LogStyled(DOMlockScroll(DOMaddClass(filled)))

\* Modal.open(arg): arg is [type, node], type "string", "node" or "other"
ModalOpen(s, arg) ==
  LET c == [s EXCEPT !.lastCall = "open"]
      cleared == DOMclear(c)
      filled == CASE arg.type = "string" -> DOMsetHTML(cleared, arg.node)
                  [] arg.type = "node" -> DOMappend(cleared, arg.node)
                  [] OTHER -> cleared
  IN IF ~c.hasModal THEN LogStyled(c)
     ELSE LogStyled(DOMlockScroll(DOMaddClass(filled)))

\* Modal.alert(title, message)
ModalAlert(s, title) ==
  LET tpl == DOMgetTemplate(s, "alert")
      opened == ModalOpen(s, [type |-> "node", node |-> [tpl EXCEPT !.title = title]])
  IN IF tpl.kind = "null" THEN s
     ELSE IF Threw(opened) THEN opened
     \* DOM.get('.modal__button', Modal.$.content) calls querySelector on null
     ELSE IF ~opened.hasModal THEN Throw(opened, "Modal.alert")
     ELSE [opened EXCEPT !.content.button = Append(@, "close")]

\* a new call of Modal.confirm is being made: the continuations attached by
\* the calls before it are no longer the latest
Earlier(names) ==
  [i \in 1..Len(names) |->
     IF names[i] = "closeThenConfirm" THEN "closeThenEarlier" ELSE names[i]]

Superseded(s) ==
  [s EXCEPT !.content.cancel = Earlier(@), !.content.confirm = Earlier(@)]

\* mutant of ModalConfirm: the cancel button gets the confirm listener
ModalConfirm_cancelConfirms(s, title) ==
  LET tpl == DOMgetTemplate(s, "confirm")
      opened == ModalOpen(Superseded(s),
                          [type |-> "node", node |-> [tpl EXCEPT !.title = title]])
  IN IF tpl.kind = "null" THEN s
     ELSE IF Threw(opened) THEN opened
     ELSE IF ~opened.hasModal THEN Throw(opened, "Modal.confirm")
     ELSE [opened EXCEPT !.content.cancel = Append(@, "closeThenConfirm"),
                         !.content.confirm = Append(@, "closeThenConfirm")]

\* mutant of ModalConfirm: no `if (!content) return`, so the title slot is
\* looked up in null
ModalConfirm_noNullCheck(s, title) ==
  LET tpl == DOMgetTemplate(s, "confirm")
      opened == ModalOpen(Superseded(s),
                          [type |-> "node", node |-> [tpl EXCEPT !.title = title]])
  IN IF tpl.kind = "null" THEN Throw(s, "Modal.confirm")
     ELSE IF Threw(opened) THEN opened
     ELSE IF ~opened.hasModal THEN Throw(opened, "Modal.confirm")
     ELSE [opened EXCEPT !.content.cancel = Append(@, "close"),
                         !.content.confirm = Append(@, "closeThenConfirm")]

\* Modal.confirm(title, message, onConfirm)
ModalConfirm(s, title) ==
  LET tpl == DOMgetTemplate(s, "confirm")
      opened == ModalOpen(Superseded(s),
                          [type |-> "node", node |-> [tpl EXCEPT !.title = title]])
  IN IF tpl.kind = "null" THEN s
     ELSE IF Threw(opened) THEN opened
     ELSE IF ~opened.hasModal THEN Throw(opened, "Modal.confirm")
     ELSE [opened EXCEPT !.content.cancel = Append(@, "close"),
                         !.content.confirm = Append(@, "closeThenConfirm")]

\* ------------------------------------------------------------- demo feature
\* mutant of UpdateMainColor: the colour is stored before STATE is updated
UpdateMainColor_storesOld(s, newColor, writeOk) ==
  LET set == [s EXCEPT !.mainColor = newColor]
      logged == LogStyled(set)
  IN IF ~Truthy(newColor) THEN s
     ELSE IF Threw(logged) THEN logged
     ELSE StorageSet(DOMsetStyle(logged, newColor),
                     IF Truthy(s.mainColor) /\ s.phase = "running" THEN s.mainColor ELSE newColor,
                     writeOk)

\* Effects.updateMainColor(newColor)
UpdateMainColor(s, newColor, writeOk) ==
  LET set == [s EXCEPT !.mainColor = newColor]
      logged == LogStyled(set)
  IN IF ~Truthy(newColor) THEN s
     ELSE IF Threw(logged) THEN logged
     ELSE StorageSet(DOMsetStyle(logged, newColor), newColor, writeOk)

\* Logic.changeColor()
ChangeColor(s, intensity, writeOk) ==
  UpdateMainColor(s, GetRandomGray(intensity), writeOk)

\* setTimeout(() => Modal.alert('Success!', ...), 500)
SetTimeout(s) == [s EXCEPT !.timers = @ + 1]

\* the continuation Handlers.changeColorClick passes to Modal.confirm
OnConfirm(s, intensity, writeOk) ==
  LET changed == ChangeColor(s, intensity, writeOk)
  IN IF Threw(changed) THEN changed ELSE SetTimeout(changed)

\* Handlers.changeColorClick
ChangeColorClick(s) ==
  LET logged == LogStyled(s)
  IN IF Threw(logged) THEN logged ELSE ModalConfirm(logged, "Change color?")

\* ------------------------------------------------------------- listeners
\* the moment a continuation starts: which one it is ("latest": passed to the
\* most recent Modal.confirm call, "earlier": to a call before that), and
\* whether the modal is open or the scroll locked
Invoke(s, whose) ==
  [s EXCEPT !.ev.conts = Append(@, whose),
            !.ev.contOpen = @ \/ s.active \/ s.overflow = "hidden"]

\* mutant of RunListener: the continuation runs before Modal.close
RunListener_continueFirst(s, name, intensity, writeOk) ==
  LET continued == OnConfirm(Invoke(s, IF name = "closeThenConfirm" THEN "latest" ELSE "earlier"),
                             intensity, writeOk)
  IN IF name = "close" THEN ModalClose(s)
     ELSE IF Threw(continued) THEN continued
     ELSE ModalClose(continued)

\* one listener attached to a dialog button or to the close control:
\* "close" is Modal.close; "closeThenConfirm" and "closeThenEarlier" are
\* () => { Modal.close(); onConfirm() } of the most recent Modal.confirm call
\* and of an earlier one
RunListener(s, name, intensity, writeOk) ==
  LET closed == ModalClose(s)
  IN IF name = "close" THEN closed
     ELSE IF Threw(closed) THEN closed
     ELSE OnConfirm(Invoke(closed, IF name = "closeThenConfirm" THEN "latest" ELSE "earlier"),
                    intensity, writeOk)

RECURSIVE RunListeners(_, _, _, _)
\* the listeners of one node, in the order they were added
RunListeners(s, names, intensity, writeOk) ==
  IF names = <<>> THEN s
  ELSE RunListeners(RunListener(s, Head(names), intensity, writeOk),
                    Tail(names), intensity, writeOk)

\* mutant of BackdropListener: the target is not compared with the root
BackdropListener_anyTarget(s, target) == ModalClose(s)

\* Modal.init, background click: (e) => { if (e.target === Modal.$.element) Modal.close() }
BackdropListener(s, target) ==
  IF target = "modal" THEN ModalClose(s) ELSE s

\* mutant of KeydownListener: Modal.isOpen() is not consulted
KeydownListener_noIsOpen(s, key) ==
  IF key = "Escape" THEN ModalClose(s) ELSE s

\* Modal.init, ESC key
KeydownListener(s, key) ==
  IF key = "Escape" /\ ModalIsOpen(s) THEN ModalClose(s) ELSE s

\* the listeners on a node of the overlay
ListenersOf(s, target) ==
  CASE target = "close" -> <<"close">>
    [] target = "button" -> s.content.button
    [] target = "cancel" -> s.content.cancel
    [] target = "confirm" -> s.content.confirm
    [] OTHER -> <<>>

\* a click on a node inside the overlay: the node's own listeners, then, as
\* the event bubbles to the overlay root, the background-click listener
DispatchClick(s, target, intensity, writeOk) ==
  BackdropListener(RunListeners(s, ListenersOf(s, target), intensity, writeOk), target)

\* nodes in the overlay that carry no listener of their own
PassiveTargets(c) ==
  {"container", "content"} \cup
  (IF c.kind \in {"alert", "confirm"} THEN {"title", "text"} ELSE {})

\* ---------------------------------------------------------------- startup
\* App.init()
AppInit(s, writeOk) ==
  LET logged == LogStyled(LogInit(s))
      \* Modal.init() and Listeners.init() register the listeners modelled
      \* by BackdropListener, KeydownListener, ListenersOf and ClickTrigger
      coloured == UpdateMainColor(logged, logged.mainColor, writeOk)
  IN IF Threw(coloured) THEN [coloured EXCEPT !.phase = "crashed"]
     ELSE [coloured EXCEPT !.phase = "running"]

\* the page as the browser builds it before the script runs
FreshPage(s, op) ==
  [s EXCEPT !.phase = "unloaded", !.logInit = FALSE, !.mainColor = Undefined,
            !.bg = Str(<<>>), !.active = FALSE, !.overflow = "",
            !.content = EmptyContent, !.timers = 0, !.lastCall = "none",
            !.ev = [NoEvent EXCEPT !.op = op]]

\* the script from top to bottom: STATE is initialised (line 445) before
\* App.init() (line 562) runs Log.init()
Startup(s, readOk, writeOk) ==
  LET got == StorageGet(s, readOk, Null)
      state == [got.st EXCEPT !.mainColor =
                  IF Truthy(got.val) THEN got.val ELSE DefaultColor]
  IN IF Threw(got.st) THEN [got.st EXCEPT !.phase = "crashed"]
     ELSE AppInit(state, writeOk)

\* ------------------------------------------------------------------ Init
Init ==
  /\ hasModal \in BOOLEAN
  /\ hasAlertTpl \in BOOLEAN
  /\ hasConfirmTpl \in BOOLEAN
  /\ store \in {NoItem} \cup {Item(x) : x \in TextsUpTo(MaxLen)}
  /\ phase = "unloaded"
  /\ logInit = FALSE
  /\ mainColor = Undefined
  /\ bg = Str(<<>>)
  /\ active = FALSE
  /\ overflow = ""
  /\ content = EmptyContent
  /\ timers = 0
  /\ lastCall = "none"
  /\ lastSet = [res |-> "none", val |-> Undefined]
  /\ ev = NoEvent
  /\ ThrottleCreated(0)

\* --------------------------------------------------------------- actions
Intensities ==
  {n \in {i * (Len(HexChars) - 1) : i \in 0..MaxSample} : n < GrayRange}

\* the browser loads the page and runs the script
Load ==
  /\ phase = "unloaded"
  /\ \E readOk \in BOOLEAN, writeOk \in BOOLEAN :
       Commit(Startup(FreshPage(Cur, "Load"), readOk, writeOk))

\* the user reloads the page: everything but the store starts afresh
Reload ==
  /\ phase # "unloaded"
  /\ \E readOk \in BOOLEAN, writeOk \in BOOLEAN :
       Commit(Startup(FreshPage(Cur, "Reload"), readOk, writeOk))

\* a click on .main__button
ClickTrigger ==
  /\ phase = "running"
  /\ Commit(ChangeColorClick(Begin("ClickTrigger", "main__button")))

\* a click on the overlay itself, outside the dialog
ClickBackdrop ==
  /\ phase = "running" /\ hasModal /\ active
  /\ Commit(DispatchClick(Begin("Click", "modal"), "modal", 0, TRUE))

\* a click on a node of the overlay that has no listener of its own
ClickInside ==
  /\ phase = "running" /\ hasModal /\ active
  /\ \E target \in PassiveTargets(content) :
       Commit(DispatchClick(Begin("Click", target), target, 0, TRUE))

\* a click on .modal__close
ClickCloseControl ==
  /\ phase = "running" /\ hasModal /\ active
  /\ Commit(DispatchClick(Begin("Click", "close"), "close", 0, TRUE))

\* a click on the button of an alert dialog
ClickAlertButton ==
  /\ phase = "running" /\ hasModal /\ active
  /\ content.kind = "alert"
  /\ Commit(DispatchClick(Begin("Click", "button"), "button", 0, TRUE))

\* a click on the negative button of a confirm dialog
ClickCancel ==
  /\ phase = "running" /\ hasModal /\ active
  /\ content.kind = "confirm"
  /\ Commit(DispatchClick(Begin("Click", "cancel"), "cancel", 0, TRUE))

\* a click on the affirmative button of a confirm dialog
ClickConfirm ==
  /\ phase = "running" /\ hasModal /\ active
  /\ content.kind = "confirm"
  /\ timers < MaxTimers
  /\ \E intensity \in Intensities, writeOk \in BOOLEAN :
       Commit(DispatchClick(Begin("Click", "confirm"), "confirm", intensity, writeOk))

\* a key is pressed
KeyDown ==
  /\ phase = "running"
  /\ \E key \in {"Escape", "Enter"} :
       Commit(KeydownListener(Begin("KeyDown", key), key))

\* a delayed callback of Handlers.changeColorClick fires
TimerFires ==
  /\ phase = "running"
  /\ timers > 0
  /\ Commit(ModalAlert([Begin("Timer", "none") EXCEPT !.timers = @ - 1], "Success!"))

\* Modal.open called directly, with markup, with a detached node, or with neither
CallOpen ==
  /\ phase = "running"
  /\ \E type \in {"string", "node", "other"} :
       Commit(ModalOpen(Begin("CallOpen", type),
                        [type |-> type, node |-> Fragment("node", "")]))

\* Modal.close called directly
CallClose ==
  /\ phase = "running"
  /\ Commit(ModalClose(Begin("CallClose", "none")))

Next ==
  \/ Load
  \/ Reload
  \/ ClickTrigger
  \/ ClickBackdrop
  \/ ClickInside
  \/ ClickCloseControl
  \/ ClickAlertButton
  \/ ClickCancel
  \/ ClickConfirm
  \/ KeyDown
  \/ TimerFires
  \/ CallOpen
  \/ CallClose

Spec == Init /\ [][Next]_vars

\* ------------------------------------------------------- Tools.throttle
\* the page plays no part while the throttled function is exercised
PageIdle ==
  /\ hasModal = FALSE
  /\ hasAlertTpl = FALSE
  /\ hasConfirmTpl = FALSE
  /\ store = NoItem
  /\ phase = "unloaded"
  /\ logInit = FALSE
  /\ mainColor = Undefined
  /\ bg = Str(<<>>)
  /\ active = FALSE
  /\ overflow = ""
  /\ content = EmptyContent
  /\ timers = 0
  /\ lastCall = "none"
  /\ lastSet = [res |-> "none", val |-> Undefined]
  /\ ev = NoEvent

\* !lastRan: undefined and 0 are falsy
NotRan(r) == ~r.set \/ r.at = 0

\* the sequence q without its i-th element
Without(q, i) == SubSeq(q, 1, i - 1) \o SubSeq(q, i + 1, Len(q))

\* mutant of ClearTimeout: the timer set before is left waiting
ClearTimeout_leaves(q, handle) == q

\* clearTimeout(lastFunc): the timer set last is dropped if it still waits;
\* an undefined handle or the handle of a timer that has fired does nothing
ClearTimeout(q, handle) ==
  IF handle = "pending" /\ q # <<>> THEN Without(q, Len(q)) ELSE q

\* setTimeout(callback, delay) at time t: due after delay, a negative delay
\* counts as none
Schedule(q, t, delay) == Append(q, t + (IF delay > 0 THEN delay ELSE 0))

\* func.apply(this, args) followed by lastRan = Date.now(); the clock may
\* have moved on by drift while func ran
RunFunc(drift) ==
  /\ now + drift <= MaxTime
  /\ lastInvoked' = At(now)
  /\ now' = now + drift
  /\ lastRan' = At(now + drift)

\* a call of the throttled function
ThrottledCall ==
  /\ IF NotRan(lastRan)
     THEN /\ \E drift \in {0, 1} : RunFunc(drift)
          /\ tev' = [op |-> "Call", invoked |-> TRUE, called |-> TRUE]
          /\ UNCHANGED <<limit, lastFunc, scheduled>>
     ELSE /\ scheduled' = Schedule(ClearTimeout(scheduled, lastFunc), now,
                                   limit - (now - lastRan.at))
          /\ lastFunc' = "pending"
          /\ tev' = [op |-> "Call", invoked |-> FALSE, called |-> TRUE]
          /\ UNCHANGED <<now, limit, lastRan, lastInvoked>>
  /\ UNCHANGED vars

\* a waiting timer that is due runs its callback
TimerCallback ==
  /\ \E i \in 1..Len(scheduled) :
       /\ scheduled[i] <= now
       /\ scheduled' = Without(scheduled, i)
       /\ lastFunc' = IF lastFunc = "pending" /\ i = Len(scheduled)
                      THEN "fired" ELSE lastFunc
  /\ IF now - lastRan.at >= limit
     THEN /\ \E drift \in {0, 1} : RunFunc(drift)
          /\ tev' = [tev EXCEPT !.op = "Timer", !.invoked = TRUE]
     ELSE /\ tev' = [tev EXCEPT !.op = "Timer", !.invoked = FALSE]
          /\ UNCHANGED <<now, lastRan, lastInvoked>>
  /\ UNCHANGED limit
  /\ UNCHANGED vars

\* time passes
Tick ==
  /\ now < MaxTime
  /\ now' = now + 1
  /\ tev' = [tev EXCEPT !.op = "Tick", !.invoked = FALSE]
  /\ UNCHANGED <<limit, lastRan, lastFunc, scheduled, lastInvoked>>
  /\ UNCHANGED vars

ThrottleInit ==
  /\ PageIdle
  /\ \E l \in 0..MaxLimit : ThrottleCreated(l)

ThrottleNext ==
  \/ ThrottledCall
  \/ TimerCallback
  \/ Tick

ThrottleSpec == ThrottleInit /\ [][ThrottleNext]_tvars

\* ---------------------------------------------------------------- claims
\* what a user can observe of the dialog
Observable(s) == <<s.active, s.overflow, s.content>>

\* C1: Modal.isOpen() is true exactly when the overlay root exists and the
\* most recent of the Modal.open / Modal.close calls was open; it is false
\* before any call, and always false when the overlay root is absent.
C1_IsOpenReflectsLastCall ==
  ModalIsOpen(Cur) <=> (hasModal /\ lastCall = "open")

\* Modal.open was called directly and the dialog is open
C1_Witness ==
  /\ ev.op = "CallOpen" /\ hasModal /\ lastCall = "open" /\ ModalIsOpen(Cur)

\* C2: from every state of the running page, closing twice leaves the same
\* visibility, scroll lock and content as closing once, and closing a
\* closed modal changes none of them.
C2_CloseIdempotent ==
  phase = "running" =>
    /\ Observable(ModalClose(ModalClose(Cur))) = Observable(ModalClose(Cur))
    /\ ~ModalIsOpen(Cur) => Observable(ModalClose(Cur)) = Observable(Cur)

\* Modal.close was called directly on a dialog that had been shown
C2_Witness ==
  /\ ev.op = "CallClose" /\ hasModal /\ ~active /\ content.kind = "confirm"

\* C3: a click in the overlay makes the background-click listener call
\* Modal.close only when its target is the overlay root: a click on the
\* container, the slot or the injected text calls close not at all and
\* leaves the modal as it was, and a click on a button or on the close
\* control calls close once, through that node's own listener.
C3_BackdropOnly ==
  [][ev'.op = "Click" =>
       CASE ev'.target = "modal" -> ev'.closes = 1 /\ ~active' /\ overflow' = ""
         [] ev'.target \in {"container", "content", "title", "text"} ->
              /\ ev'.closes = 0
              /\ UNCHANGED <<active, overflow, content, lastCall>>
         [] OTHER -> ev'.closes = 1]_vars

\* an open confirm dialog was clicked on its title and stayed open
C3_Witness ==
  /\ ev.op = "Click" /\ ev.target = "title" /\ active /\ content.kind = "confirm"

\* C4: an Escape key press while the modal is closed does not call
\* Modal.close and leaves visibility, scroll lock and content unchanged;
\* while the modal is open it closes it.
C4_EscapeOnlyWhenOpen ==
  [][(ev'.op = "KeyDown" /\ ev'.target = "Escape") =>
       IF ModalIsOpen(Cur)
       THEN ev'.closes = 1 /\ ~active' /\ overflow' = "" /\ content' = content
       ELSE ev'.closes = 0 /\ UNCHANGED <<active, overflow, content>>]_vars

\* Escape was pressed after a dialog had been shown and closed
C4_Witness ==
  /\ ev.op = "KeyDown" /\ ev.target = "Escape" /\ ev.closes = 0
  /\ hasModal /\ ~active /\ content.kind = "confirm"

\* C5: when the most recent Storage.set wrote a non-empty string C, a
\* reload whose read of the store does not fail starts the page with
\* STATE.mainColor = C and the main region's background = C.
C5_ColorRoundTrip ==
  [][(/\ ev'.op = "Reload"
      /\ lastSet.res = "ok" /\ lastSet.val.t = "str" /\ lastSet.val.v # <<>>
      /\ ev'.get # "readError")
     => (phase' = "running" /\ mainColor' = lastSet.val /\ bg' = lastSet.val)]_vars

\* a gray produced by the demo was written and restored by a reload
C5_Witness ==
  /\ ev.op = "Reload" /\ ev.get = "parsed" /\ phase = "running"
  /\ mainColor = GetRandomGray(Len(HexChars) - 1) /\ bg = mainColor

\* C6: when the store has no value under the colour key, or text that is
\* not JSON, startup completes with the default colour '#111' as
\* STATE.mainColor and as the background.
C6_DefaultOnAbsentOrCorrupt ==
  (ev.op \in {"Load", "Reload"} /\ ev.get \in {"absent", "parseError"})
    => (phase = "running" /\ mainColor = DefaultColor /\ bg = DefaultColor)

\* '#' followed by the same two hex digits three times
IsGray(x) ==
  /\ x.t = "str" /\ Len(x.v) = 7 /\ x.v[1] = "#"
  /\ \A i \in 2..7 : \E k \in 1..Len(HexChars) : x.v[i] = HexChars[k]
  /\ x.v[2] = x.v[4] /\ x.v[4] = x.v[6]
  /\ x.v[3] = x.v[5] /\ x.v[5] = x.v[7]

\* the page has the overlay root and both templates
MarkupOk == hasModal /\ hasAlertTpl /\ hasConfirmTpl

\* C7, as stated (on a page with the overlay root and both templates): the
\* trigger opens the confirm dialog; the affirmative button sets the
\* background to a gray '#xxxxxx', persists that value and schedules the
\* callback; the callback opens the acknowledgment dialog.
C7_DemoConfirmFlow ==
  [][MarkupOk =>
      /\ ev'.op = "ClickTrigger" =>
            active' /\ content'.kind = "confirm" /\ content'.title = "Change color?"
      /\ (ev'.op = "Click" /\ ev'.target = "confirm") =>
            /\ IsGray(bg') /\ mainColor' = bg'
            /\ store' = Item(JSONstringify(bg'))
            /\ timers' = timers + 1
      /\ ev'.op = "Timer" =>
            active' /\ content'.kind = "alert" /\ content'.title = "Success!"]_vars

\* C7, amended: as C7, but the gray is persisted when the store accepts the
\* write; when the write fails the stored value stays as it was.
C7_DemoConfirmFlowAmended ==
  [][MarkupOk =>
      /\ ev'.op = "ClickTrigger" =>
            active' /\ content'.kind = "confirm" /\ content'.title = "Change color?"
      /\ (ev'.op = "Click" /\ ev'.target = "confirm") =>
            /\ IsGray(bg') /\ mainColor' = bg'
            /\ lastSet'.val = bg'
            /\ IF lastSet'.res = "ok" THEN store' = Item(JSONstringify(bg'))
                                      ELSE store' = store
            /\ ~active' /\ overflow' = ""
            /\ timers' = timers + 1
      /\ ev'.op = "Timer" =>
            /\ active' /\ content'.kind = "alert" /\ content'.title = "Success!"
            /\ timers' = timers - 1]_vars

\* the acknowledgment dialog is open and the padded gray 0f0f0f is stored
C7_Witness ==
  /\ ev.op = "Timer" /\ active /\ content.kind = "alert"
  /\ bg = GetRandomGray(Len(HexChars) - 1)
  /\ store = Item(JSONstringify(bg))

\* C8: cancelling the confirm dialog closes it and leaves background,
\* STATE.mainColor, stored value and pending callbacks unchanged; a callback
\* is only ever scheduled by the affirmative button, and an acknowledgment
\* is only ever put on display by a scheduled callback.
C8_CancelChangesNothing ==
  [][/\ (ev'.op = "Click" /\ ev'.target = "cancel") =>
          /\ UNCHANGED <<bg, mainColor, store, timers, content, lastSet>>
          /\ ev'.closes = 1 /\ ~active' /\ overflow' = ""
     /\ timers' > timers => (ev'.op = "Click" /\ ev'.target = "confirm")
     /\ (content'.kind = "alert" /\ content' # content) =>
          (ev'.op = "Timer" /\ timers' = timers - 1)]_vars

\* the confirm dialog was cancelled with no callback pending
C8_Witness ==
  /\ ev.op = "Click" /\ ev.target = "cancel" /\ ~active /\ timers = 0
  /\ content.kind = "confirm" /\ lastSet.val = mainColor

\* C9: without the overlay root no Modal operation throws, and the modal
\* state and the scroll lock stay as the page load left them.
C9_NoRootNoThrow ==
  (phase = "running" /\ ~hasModal) =>
    /\ ev.uncaught = "none"
    /\ ~active /\ overflow = "" /\ content = EmptyContent

\* C10: Modal.confirm without its template, and Modal.alert without its
\* template, return without throwing and leave visibility, scroll lock,
\* content with its button listeners, colour and store as they were; the
\* continuation is not run (no colour change, no callback scheduled).
C10_MissingTemplateAborts ==
  [][((ev'.op = "ClickTrigger" /\ ~hasConfirmTpl) \/ (ev'.op = "Timer" /\ ~hasAlertTpl)) =>
       /\ ev'.uncaught = "none" /\ ev'.closes = 0
       /\ UNCHANGED <<active, overflow, content, lastCall, mainColor, bg, store, lastSet>>
       /\ timers' = IF ev'.op = "Timer" THEN timers - 1 ELSE timers]_vars

\* the trigger was clicked, with no confirm template, while a dialog was open
C10_Witness ==
  /\ ev.op = "ClickTrigger" /\ ~hasConfirmTpl
  /\ hasModal /\ active /\ content.kind = "node"

\* C11: in a dialog opened by Modal.confirm, a click on the affirmative
\* button calls Modal.close once and then the continuation once, which
\* starts with the modal closed and the scroll unlocked; a click on the
\* negative button calls Modal.close once and no continuation.
C11_CloseThenContinue ==
  [][ev'.op = "Click" =>
       CASE ev'.target = "confirm" ->
              /\ ev'.closes = 1 /\ Len(ev'.conts) = 1 /\ ~ev'.contOpen
              /\ mainColor' = bg' /\ lastSet'.val = mainColor' /\ timers' = timers + 1
         [] ev'.target = "cancel" ->
              /\ ev'.closes = 1 /\ ev'.conts = <<>>
              /\ ~active' /\ overflow' = ""
              /\ UNCHANGED <<mainColor, bg, store, timers>>
         [] OTHER -> ev'.conts = <<>>]_vars

\* the affirmative button was clicked and its continuation changed the colour
C11_Witness ==
  /\ ev.op = "Click" /\ ev.target = "confirm" /\ ev.conts = <<"latest">>
  /\ ~active /\ overflow = "" /\ timers = 1 /\ bg = GetRandomGray(0)

\* C12: the scroll lock is set exactly when the modal is open, and every
\* step in which Modal.close was called (close call, backdrop click, close
\* control, Escape, dialog buttons) ends with the scroll lock released.
C12_ScrollLockIffOpen ==
  /\ (overflow = "hidden") <=> ModalIsOpen(Cur)
  /\ ev.closes > 0 => (overflow = "" /\ ~ModalIsOpen(Cur))

\* the acknowledgment dialog was dismissed with its button
C12_Witness ==
  /\ ev.op = "Click" /\ ev.target = "button" /\ ev.closes = 1
  /\ hasModal /\ content.kind = "alert" /\ overflow = "" /\ ~active

\* C13: no failure of the store escapes Storage.get or Storage.set: when
\* reading or decoding fails, also while STATE is first initialised, get
\* returns the default (so the page runs with '#111'); when writing fails
\* nothing is thrown out of Storage.set's catch block.
C13_StorageNeverThrows ==
  /\ ev.get \in {"readError", "parseError"} =>
       (ev.uncaught = "none" /\ phase = "running" /\ mainColor = DefaultColor)
  /\ ev.uncaught # "Log"

\* C14, as stated: the store is read only at startup, the colour key is
\* never deleted, and once startup has completed, as after every colour
\* change whose write succeeded, the stored text is the JSON encoding of
\* STATE.mainColor, which is the background applied.
C14_StoredColorLifecycle ==
  /\ [](ev.get # "none" => ev.op \in {"Load", "Reload"})
  /\ [][store.has => store'.has]_vars
  /\ [](phase = "running" =>
          /\ bg = mainColor
          /\ (ev.op \in {"Load", "Reload"} \/ lastSet.res = "ok") =>
                store = Item(JSONstringify(mainColor)))

\* C14, amended: as C14, with the stored text equal to the JSON encoding of
\* STATE.mainColor after every startup and every colour change whose write
\* to the store succeeded.
C14_StoredColorLifecycleAmended ==
  /\ [](ev.get # "none" => ev.op \in {"Load", "Reload"})
  /\ [][store.has => store'.has]_vars
  /\ [](phase = "running" =>
          /\ bg = mainColor
          /\ lastSet.val = mainColor
          /\ lastSet.res = "ok" => store = Item(JSONstringify(mainColor)))

\* a gray was written over the colour restored at startup
C14_Witness ==
  /\ ev.op = "Click" /\ ev.target = "confirm" /\ lastSet.res = "ok"
  /\ mainColor = GetRandomGray(2 * (Len(HexChars) - 1))
  /\ store = Item(JSONstringify(mainColor)) /\ bg = mainColor

\* C15: a scheduled acknowledgment is never cancelled: short of a page
\* reload, the pending callbacks only go down by one, when one of them
\* fires; and (the alert template being on the page) the callback that
\* fires calls Modal.open once, which replaces whatever the slot holds by a
\* fresh acknowledgment dialog and leaves the modal open, whatever happened
\* since it was scheduled.
C15_AckNotCancelable ==
  [][/\ (ev'.op \notin {"Load", "Reload"} /\ timers' < timers) =>
          (ev'.op = "Timer" /\ timers' = timers - 1)
     /\ (ev'.op = "Timer" /\ hasAlertTpl) =>
          /\ ev'.uncaught = "none" /\ lastCall' = "open"
          /\ active' /\ overflow' = "hidden"
          /\ content' = [Fragment("alert", "Success!") EXCEPT !.button = <<"close">>]]_vars

\* a callback fired, with a second confirmation made before it fired
C15_Witness ==
  /\ ev.op = "Timer" /\ timers = 1 /\ active /\ content.kind = "alert"

\* what a run shows of modal state, scroll lock, colour state, persisted
\* value and uncaught exceptions
Behaviour(s) ==
  <<s.phase, s.active, s.overflow, s.content, s.mainColor, s.bg, s.store, s.ev.uncaught>>

\* C16: the logger has no effect on behaviour: every startup of the program
\* ends, for the same store and the same outcome of the read, as the startup
\* of the program with a no-op logger ends (for some outcome of the write),
\* and no later step throws out of a logger call.
C16_LoggerHasNoEffect ==
  [][/\ ev'.op \in {"Load", "Reload"} =>
          \E writeOk \in BOOLEAN :
            Behaviour(Startup(NoopLogger(FreshPage(Cur, ev'.op)),
                              ev'.get # "readError", writeOk)) = Behaviour(Cur')
     /\ ev'.uncaught # "Log"]_vars

\* C17: the buttons of the dialog on display carry exactly the listeners of
\* the call that put it there, and a click on the affirmative button runs
\* the continuation of the most recent Modal.confirm call once and no
\* continuation of an earlier call.
C17_HandlersDoNotAccumulate ==
  /\ [](/\ (content.kind = "confirm") =>
             (content.confirm = <<"closeThenConfirm">> /\ content.cancel = <<"close">>)
        /\ (content.kind = "alert") => (content.button = <<"close">>)
        /\ (content.kind \notin {"alert", "confirm"}) =>
             (content.button = <<>> /\ content.cancel = <<>> /\ content.confirm = <<>>))
  /\ [][(ev'.op = "Click" /\ ev'.target = "confirm") => ev'.conts = <<"latest">>]_vars

\* a second confirm dialog was confirmed while the first acknowledgment was pending
C17_Witness ==
  /\ ev.op = "Click" /\ ev.target = "confirm" /\ ev.conts = <<"latest">>
  /\ timers = 2 /\ content.confirm = <<"closeThenConfirm">>

\* C18: the first call of a throttled function applies func at once, two
\* successive applications of func are at least limit apart, and at most
\* one timer waits at any time: a call while one waits replaces it.
C18_ThrottleSpacing ==
  [][/\ (tev'.op = "Call" /\ ~tev.called) => (tev'.invoked /\ lastInvoked' = At(now))
     /\ (tev'.invoked /\ lastInvoked.set) => (now - lastInvoked.at >= limit)
     /\ Len(scheduled') <= 1
     /\ (tev'.op = "Call" /\ tev.called) =>
          (~tev'.invoked /\ Len(scheduled') = 1 /\ lastFunc' = "pending")]_tvars

\* a call replaced the waiting timer, and the timer set in its place later
\* applied func, the limit being more than one tick
C18_Witness ==
  /\ tev.op = "Timer" /\ tev.invoked /\ limit > 1
  /\ lastFunc = "fired" /\ scheduled = <<>> /\ lastInvoked.at >= 1 + limit

====
